---- MODULE Spec2Model ----
(***************************************************************************)
(* Model of recycle_from_bin.py: the decoder of Recycle Bin $I metadata    *)
(* files and the recursive restore of $I/$R pairs under a restore target.  *)
(* Pathnames are strings, handled with the posixpath functions the script  *)
(* calls (the non-Windows branch: pathname_to_os is the identity).  The    *)
(* filesystem maps absolute component sequences to nodes.  Spec is the     *)
(* script run on a bin of two pairs; ParseSpec is the decoder alone.       *)
(***************************************************************************)
EXTENDS Integers, Sequences, FiniteSets, TLC

VARIABLES
  fs,          \* the filesystem: absolute component sequence -> node
  fs0,         \* the filesystem when the first run started (history)
  target,      \* restore_target_dir of main(): "." or a directory name
  binroot,     \* the <recycle-bin-dir> argument of main()
  run,         \* number of the current invocation of the script
  pc,          \* position of the current invocation
  todo,        \* pending process_recursively() calls, in call order
  cur,         \* locals of process_recycle_bin_pathname()
  stderr,      \* lines written to sys.stderr by the current invocation
  err,         \* the uncaught exception that ended the invocation, if any
  hist,        \* returns of process_recycle_bin_pathname() (history)
  ends,        \* how each earlier invocation ended (history)
  window       \* entries caught by a stop between rename and remove (history)

vars == <<fs, fs0, target, binroot, run, pc, todo, cur, stderr, err, hist,
          ends, window>>

---------------------------------------------------------------------------
(* Bounds of the model. *)

MaxRuns == 2

---------------------------------------------------------------------------
(* Strings. *)

Ch(s, i) == SubSeq(s, i, i)

StartsWith(s, p) == Len(s) >= Len(p) /\ SubSeq(s, 1, Len(p)) = p

RECURSIVE FindFrom(_, _, _)
FindFrom(s, c, i) ==
  IF i > Len(s) THEN 0 ELSE IF Ch(s, i) = c THEN i ELSE FindFrom(s, c, i + 1)

\* str.find(c): index (1-based) of the first c in s, 0 when there is none.
Find(s, c) == FindFrom(s, c, 1)

RECURSIVE RFindFrom(_, _, _)
RFindFrom(s, c, i) ==
  IF i = 0 THEN 0 ELSE IF Ch(s, i) = c THEN i ELSE RFindFrom(s, c, i - 1)

\* str.rfind(c): index (1-based) of the last c in s, 0 when there is none.
RFind(s, c) == RFindFrom(s, c, Len(s))

\* str.split(c): the pieces between the separators, empty pieces included.
RECURSIVE Split(_, _)
Split(s, c) ==
  LET i == Find(s, c) IN
  IF i = 0 THEN <<s>>
  ELSE <<SubSeq(s, 1, i - 1)>> \o Split(SubSeq(s, i + 1, Len(s)), c)

\* filter(None, pieces): the non-empty pieces, in order.
RECURSIVE FilterNonEmpty(_)
FilterNonEmpty(q) ==
  IF q = << >> THEN << >>
  ELSE IF Head(q) = "" THEN FilterNonEmpty(Tail(q))
  ELSE <<Head(q)>> \o FilterNonEmpty(Tail(q))

\* The characters of the model in byte order (the order sorted() uses).
Alphabet == "$-./0123456789:ABCDEFGHIJKLMNOPQRSTUVWXYZ\\_abcdefghijklmnopqrstuvwxyz"

Ord(c) == CHOOSE i \in 1..Len(Alphabet) : Ch(Alphabet, i) = c

\* a < b for str, byte-wise.
RECURSIVE StrLess(_, _)
StrLess(a, b) ==
  IF b = "" THEN FALSE
  ELSE IF a = "" THEN TRUE
  ELSE IF Ch(a, 1) = Ch(b, 1)
       THEN StrLess(SubSeq(a, 2, Len(a)), SubSeq(b, 2, Len(b)))
       ELSE Ord(Ch(a, 1)) < Ord(Ch(b, 1))

\* A variant of Sorted that puts the names in descending order.
RECURSIVE Sorted_Descending(_)
Sorted_Descending(S) ==
  IF S = {} THEN << >>
  ELSE LET m == CHOOSE x \in S : \A y \in S \ {x} : StrLess(y, x)
       IN <<m>> \o Sorted_Descending(S \ {m})

\* sorted(names) of a set of distinct names.
RECURSIVE Sorted(_)
Sorted(S) ==
  IF S = {} THEN << >>
  ELSE LET m == CHOOSE x \in S : \A y \in S \ {x} : StrLess(x, y)
       IN <<m>> \o Sorted(S \ {m})

\* '%d' % i
RECURSIVE IntToStr(_)
IntToStr(i) ==
  IF i < 10 THEN Ch("0123456789", i + 1)
  ELSE IntToStr(i \div 10) \o Ch("0123456789", (i % 10) + 1)

IsAlpha(c) == c # "" /\ \E i \in 1..Len(Alphabet) :
                 /\ Ch(Alphabet, i) = c
                 /\ \/ (Ord("A") <= i /\ i <= Ord("Z"))
                    \/ (Ord("a") <= i /\ i <= Ord("z"))

\* str.lower() of one character.
Lower(c) ==
  IF IsAlpha(c) /\ Ord(c) <= Ord("Z") THEN Ch(Alphabet, Ord(c) - Ord("A") + Ord("a"))
  ELSE c

---------------------------------------------------------------------------
(* posixpath. *)

\* os.path.join(a, b)
PathJoin(a, b) ==
  IF StartsWith(b, "/") THEN b
  ELSE IF a = "" \/ Ch(a, Len(a)) = "/" THEN a \o b
  ELSE a \o "/" \o b

\* os.path.join(*parts) for a non-empty list of parts.
RECURSIVE PathJoinAll(_)
PathJoinAll(parts) ==
  IF Len(parts) = 1 THEN parts[1]
  ELSE PathJoin(PathJoinAll(SubSeq(parts, 1, Len(parts) - 1)), parts[Len(parts)])

RECURSIVE RStripSlash(_)
RStripSlash(s) ==
  IF s # "" /\ Ch(s, Len(s)) = "/" THEN RStripSlash(SubSeq(s, 1, Len(s) - 1)) ELSE s

\* os.path.dirname(p)
DirName(p) ==
  LET head == SubSeq(p, 1, RFind(p, "/")) IN
  IF head # "" /\ RStripSlash(head) # "" THEN RStripSlash(head) ELSE head

\* os.path.basename(p)
BaseName(p) == SubSeq(p, RFind(p, "/") + 1, Len(p))

\* os.path.splitext(p): the extension starts at the last dot of the last
\* component, unless only dots precede it there.
SplitExt(p) ==
  LET sepIndex == RFind(p, "/")
      dotIndex == RFind(p, ".")
  IN IF dotIndex > sepIndex
        /\ \E k \in (sepIndex + 1)..(dotIndex - 1) : Ch(p, k) # "."
     THEN [prefix |-> SubSeq(p, 1, dotIndex - 1), ext |-> SubSeq(p, dotIndex, Len(p))]
     ELSE [prefix |-> p, ext |-> ""]

---------------------------------------------------------------------------
(* The filesystem the os module works on.  Keys are absolute component     *)
(* sequences; << >> is the root directory.  A symlink is a dangling one:   *)
(* lstat sees it, stat does not.                                           *)

\* The working directory of the process.
Cwd == <<"w">>

NoMeta == [hdrlen |-> 0, version |-> 0, size |-> 0, filetime |-> 0,
           lenlen |-> 0, n |-> 0, units |-> << >>, odd |-> 0]

\* What a failed lstat/stat stands for.
NoNode == [kind |-> "none", size |-> 0, mtime |-> 0, atime |-> 0, id |-> "",
           data |-> NoMeta]

DirNode == [kind |-> "dir", size |-> 0, mtime |-> 0, atime |-> 0, id |-> "",
            data |-> NoMeta]

IsDirAt(f, at) == at \in DOMAIN f /\ f[at].kind = "dir"

\* Pathname resolution from directory `at` over the components left: every
\* component but the last must lead to a directory.
RECURSIVE WalkFrom(_, _, _)
WalkFrom(f, at, comps) ==
  IF comps = << >> THEN [ok |-> TRUE, at |-> at]
  ELSE IF ~IsDirAt(f, at) THEN [ok |-> FALSE, at |-> at]
  ELSE LET c == Head(comps) IN
       IF c = "" \/ c = "." THEN WalkFrom(f, at, Tail(comps))
       ELSE IF c = ".."
            THEN WalkFrom(f, IF at = << >> THEN at ELSE SubSeq(at, 1, Len(at) - 1),
                          Tail(comps))
            ELSE WalkFrom(f, Append(at, c), Tail(comps))

Resolve(f, p) ==
  IF p = "" THEN [ok |-> FALSE, at |-> << >>]
  ELSE WalkFrom(f, IF StartsWith(p, "/") THEN << >> ELSE Cwd, Split(p, "/"))

\* os.lstat(p); NoNode stands for OSError.
LStat(f, p) ==
  LET r == Resolve(f, p) IN
  IF r.ok /\ r.at \in DOMAIN f THEN f[r.at] ELSE NoNode

\* os.stat(p): a dangling symlink does not resolve.
Stat(f, p) == IF LStat(f, p).kind = "symlink" THEN NoNode ELSE LStat(f, p)

\* os.path.exists(p)
PathExists(f, p) == Stat(f, p).kind # "none"

\* os.path.isdir(p)
PathIsDir(f, p) == Stat(f, p).kind = "dir"

\* os.listdir(p) of a directory.
ListDir(f, p) ==
  LET d == Resolve(f, p).at IN
  {k[Len(k)] : k \in {x \in DOMAIN f : Len(x) = Len(d) + 1 /\ SubSeq(x, 1, Len(d)) = d}}

IsPrefix(a, b) == Len(a) <= Len(b) /\ SubSeq(b, 1, Len(a)) = a

Without(f, S) == [k \in DOMAIN f \ S |-> f[k]]

With(f, at, node) == [k \in DOMAIN f \cup {at} |-> IF k = at THEN node ELSE f[k]]

\* os.mkdir(p): the parent must be a directory and nothing may be at p.
MkDir(f, p) ==
  LET r == Resolve(f, p) IN
  IF r.ok /\ r.at \notin DOMAIN f
  THEN [ok |-> TRUE, fs |-> With(f, r.at, DirNode)]
  ELSE [ok |-> FALSE, fs |-> f]

\* os.path.split(p): (head, tail)
PathSplit(p) ==
  LET head == SubSeq(p, 1, RFind(p, "/")) IN
  [head |-> IF head # "" /\ RStripSlash(head) # "" THEN RStripSlash(head) ELSE head,
   tail |-> SubSeq(p, RFind(p, "/") + 1, Len(p))]

\* os.makedirs(name) of Python 2: creates the missing ancestors, tolerating
\* only EEXIST from the recursive call, then mkdir(name), whose failure
\* propagates.  What was created before a failure stays.
RECURSIVE MakeDirs(_, _)
MakeDirs(f, name) ==
  LET s1   == PathSplit(name)
      s2   == IF s1.tail = "" THEN PathSplit(s1.head) ELSE s1
      head == s2.head
      tail == s2.tail
  IN IF head # "" /\ tail # "" /\ ~PathExists(f, head)
     THEN LET up == MakeDirs(f, head) IN
          IF ~up.ok /\ ~up.eexist THEN up
          ELSE IF tail = "." THEN [ok |-> TRUE, eexist |-> FALSE, fs |-> up.fs]
          ELSE LET m == MkDir(up.fs, name) IN
               [ok |-> m.ok, eexist |-> LStat(up.fs, name).kind # "none", fs |-> m.fs]
     ELSE LET m == MkDir(f, name) IN
          [ok |-> m.ok, eexist |-> LStat(f, name).kind # "none", fs |-> m.fs]

\* A variant of Rename that copies instead of moving: src stays.
Rename_Copy(f, src, dst) ==
  LET s == Resolve(f, src)
      d == Resolve(f, dst)
  IN IF s.ok /\ s.at \in DOMAIN f /\ d.ok
     THEN [ok |-> TRUE, fs |-> With(f, d.at, f[s.at])]
     ELSE [ok |-> FALSE, fs |-> f]

\* os.rename(src, dst) of POSIX: src moves with everything below it; a file
\* replaces a non-directory at dst, a directory only an empty directory.
Rename(f, src, dst) ==
  LET s == Resolve(f, src)
      d == Resolve(f, dst)
      below(at) == {k \in DOMAIN f : IsPrefix(at, k)}
  IN IF ~(s.ok /\ s.at \in DOMAIN f /\ d.ok /\ s.at # << >> /\ d.at # << >>)
     THEN [ok |-> FALSE, fs |-> f]
     ELSE IF s.at = d.at THEN [ok |-> TRUE, fs |-> f]
     ELSE IF IsPrefix(s.at, d.at) THEN [ok |-> FALSE, fs |-> f]
     ELSE IF d.at \in DOMAIN f
             /\ \/ (f[s.at].kind = "dir") # (f[d.at].kind = "dir")
                \/ (f[d.at].kind = "dir" /\ below(d.at) # {d.at})
     THEN [ok |-> FALSE, fs |-> f]
     ELSE LET moved == below(s.at)
              kept  == (DOMAIN f \ moved) \ {d.at}
              to(k) == d.at \o SubSeq(k, Len(s.at) + 1, Len(k))
              new   == kept \cup {to(k) : k \in moved}
          IN [ok |-> TRUE,
              fs |-> [k \in new |->
                        IF k \in kept THEN f[k]
                        ELSE f[CHOOSE m \in moved : to(m) = k]]]

\* os.remove(p): unlinks a non-directory.
Remove(f, p) ==
  LET r == Resolve(f, p) IN
  IF r.ok /\ r.at \in DOMAIN f /\ f[r.at].kind # "dir"
  THEN [ok |-> TRUE, fs |-> Without(f, {r.at})]
  ELSE [ok |-> FALSE, fs |-> f]

\* os.utime(p, (atime, mtime)): follows symlinks.
UTime(f, p, atime, mtime) ==
  LET r == Resolve(f, p) IN
  IF Stat(f, p).kind # "none"
  THEN [ok |-> TRUE, fs |-> [f EXCEPT ![r.at].atime = atime, ![r.at].mtime = mtime]]
  ELSE [ok |-> FALSE, fs |-> f]

---------------------------------------------------------------------------
(* parse_recycle_bin_i_file.  The content of a $I file is a record: hdrlen *)
(* header bytes are present (of 24), holding version, size and filetime;   *)
(* lenlen bytes of the version-2 length field are present (of 4), holding  *)
(* n; units are the UTF-16 code units that follow, and odd is 1 when one   *)
(* more stray byte follows them.  A code unit is a one-character string,   *)
(* "NUL", or "SURR" (a lone surrogate).                                    *)

HeaderBytes == 24
LengthBytes == 4
V1PathBytes == 520
MaxPathUnits == 4096

Failed(why) == [ok |-> FALSE, err |-> why, size |-> 0, filetime |-> 0, path |-> ""]

\* f.read(k bytes) of the pathname field: whole code units read, and
\* whether a stray half unit follows them.
ReadField(m, wanted) ==
  IF Len(m.units) >= wanted
  THEN [units |-> SubSeq(m.units, 1, wanted), half |-> FALSE]
  ELSE [units |-> m.units, half |-> m.odd = 1]

\* Index of the first NUL among the units, 0 when there is none.
FindNul(u) ==
  IF \E i \in 1..Len(u) : u[i] = "NUL"
  THEN CHOOSE i \in 1..Len(u) : u[i] = "NUL" /\ \A j \in 1..(i - 1) : u[j] # "NUL"
  ELSE 0

\* The str of the units before the terminator.  Every code unit of the model
\* but NUL and SURR is ASCII: maybe_encode_pathname turns it into the one
\* byte of the same value, so the byte string is the units put together.
RECURSIVE Concat(_)
Concat(u) == IF u = << >> THEN "" ELSE Head(u) \o Concat(Tail(u))

\* A variant of RebasePathname that checks the colon but not the backslash
\* after it.
RebasePathname_ColonOnly(name) ==
  IF Len(name) < 3 THEN Failed("deleted_pathame too short")
  ELSE IF ~IsAlpha(Ch(name, 1)) THEN Failed("Bad drive letter in deleted_pathname")
  ELSE IF Ch(name, 2) # ":"
       THEN Failed("Missing drive separator in deleted_pathname")
  ELSE [ok |-> TRUE, err |-> "", size |-> 0, filetime |-> 0,
        path |-> PathJoinAll(FilterNonEmpty(
                   Split(Lower(Ch(name, 1)) \o SubSeq(name, 3, Len(name)), "\\")))]

\* Lines 121-129: the checks of the drive prefix and the relative path.
RebasePathname(name) ==
  IF Len(name) < 3 THEN Failed("deleted_pathame too short")
  ELSE IF ~IsAlpha(Ch(name, 1)) THEN Failed("Bad drive letter in deleted_pathname")
  ELSE IF SubSeq(name, 2, 3) # ":\\"
       THEN Failed("Missing drive separator in deleted_pathname")
  ELSE [ok |-> TRUE, err |-> "", size |-> 0, filetime |-> 0,
        path |-> PathJoinAll(FilterNonEmpty(
                   Split(Lower(Ch(name, 1)) \o SubSeq(name, 3, Len(name)), "\\")))]

\* Lines 112-120: decode('utf-16le'), then cut at the first NUL.
DecodeField(field) ==
  IF field.half \/ \E i \in 1..Len(field.units) : field.units[i] = "SURR"
  THEN Failed("Bad UTF-16LE pathname")
  ELSE IF FindNul(field.units) = 0 THEN Failed("Missing trailing NUL in deleted_pathname")
  ELSE RebasePathname(Concat(SubSeq(field.units, 1, FindNul(field.units) - 1)))

\* A variant of parse_recycle_bin_i_file that rejects a length field equal
\* to the largest length too.
parse_recycle_bin_i_file_Inclusive(m) ==
  LET done(field) ==
        LET r == DecodeField(field) IN
        IF r.ok THEN [r EXCEPT !.size = m.size, !.filetime = m.filetime] ELSE r
  IN IF m.hdrlen # HeaderBytes THEN Failed("EOF in Recycle Bin $I file header.")
     ELSE IF m.version = 1 THEN done(ReadField(m, V1PathBytes \div 2))
     ELSE IF m.version = 2
          THEN IF m.lenlen # LengthBytes THEN Failed("EOF in deleted_pathname size.")
               ELSE IF m.n >= MaxPathUnits THEN Failed("deleted_pathname too long.")
               ELSE done(ReadField(m, m.n))
     ELSE Failed("Bad Recycle Bin $I signature")

parse_recycle_bin_i_file(m) ==
  LET done(field) ==
        LET r == DecodeField(field) IN
        IF r.ok THEN [r EXCEPT !.size = m.size, !.filetime = m.filetime] ELSE r
  IN IF m.hdrlen # HeaderBytes THEN Failed("EOF in Recycle Bin $I file header.")
     ELSE IF m.version = 1 THEN done(ReadField(m, V1PathBytes \div 2))
     ELSE IF m.version = 2
          THEN IF m.lenlen # LengthBytes THEN Failed("EOF in deleted_pathname size.")
               ELSE IF m.n > MaxPathUnits THEN Failed("deleted_pathname too long.")
               ELSE done(ReadField(m, m.n))
     ELSE Failed("Bad Recycle Bin $I signature")

\* Times of the model count hundreds of seconds: a filetime is a count of
\* 10^9 ticks (filetime / WINDOWS_TICK in units of 100 s) and
\* SEC_TO_UNIX_EPOCH, 11644473600 s, is 116444736 of these units.
SEC_TO_UNIX_EPOCH == 116444736

filetime_to_timestamp_float(filetime) == filetime - SEC_TO_UNIX_EPOCH

---------------------------------------------------------------------------
(* The states the script can be started in. *)

\* The largest number of names name.ext, name-1.ext, ... already taken
\* under the restore target when the first run starts.
MaxTaken == 1

Units(s) == [i \in 1..Len(s) |-> Ch(s, i)]

Nuls(k) == [i \in 1..k |-> "NUL"]

\* A version-2 record as Windows writes it: n counts the terminator.
MetaV2(name, size, filetime) ==
  [hdrlen |-> HeaderBytes, version |-> 2, size |-> size, filetime |-> filetime,
   lenlen |-> LengthBytes, n |-> Len(name) + 1,
   units |-> Units(name) \o Nuls(1), odd |-> 0]

\* A version-1 record: the pathname padded with NULs to 260 code units.
MetaV1(name, size, filetime) ==
  [hdrlen |-> HeaderBytes, version |-> 1, size |-> size, filetime |-> filetime,
   lenlen |-> 0, n |-> 0,
   units |-> Units(name) \o Nuls((V1PathBytes \div 2) - Len(name)), odd |-> 0]

MetaBadVersion ==
  [hdrlen |-> HeaderBytes, version |-> 3, size |-> 2, filetime |-> 0,
   lenlen |-> LengthBytes, n |-> 2, units |-> Units("C:") , odd |-> 0]

PayloadMTime == 5
PayloadATime == 6
DeclaredSize == 2
Earlier == SEC_TO_UNIX_EPOCH + 3
Later == SEC_TO_UNIX_EPOCH + 7

MetaF == MetaV2("C:\\d\\f.txt", DeclaredSize, Earlier)
MetaRoot == MetaV2("C:\\", DeclaredSize, Later)
MetaAbs == MetaV2("C:\\/e", DeclaredSize, Later)
MetaF1 == MetaV1("C:\\d\\f.txt", DeclaredSize, Later)
MetaSub == MetaV2("C:\\d\\f.txt\\g", DeclaredSize, Earlier)
MetaUp == MetaV2("C:\\..\\..\\e", DeclaredSize, Earlier)

\* What the first pair (bin/$IA.dat, bin/$RA.dat) may be: the record, and
\* the kind of the payload ("none": missing, "short": a file of another size).
ConfigsA == {<<MetaF, "file">>, <<MetaF, "short">>, <<MetaF, "none">>, <<MetaF, "dir">>,
             <<MetaBadVersion, "file">>, <<MetaBadVersion, "none">>,
             <<MetaRoot, "file">>, <<MetaAbs, "file">>}

\* What the second pair (bin/S/$IB, bin/S/$RB) may be.
ConfigsB == {<<MetaF1, "file">>, <<MetaF1, "none">>, <<MetaF1, "symlink">>,
             <<MetaSub, "file">>, <<MetaSub, "symlink">>,
             <<MetaUp, "file">>, <<MetaBadVersion, "file">>}

BinDir == Cwd \o <<"bin">>
SubDir == BinDir \o <<"S">>
MetaA == BinDir \o <<"$IA.dat">>
DataA == BinDir \o <<"$RA.dat">>
MetaB == SubDir \o <<"$IB">>
DataB == SubDir \o <<"$RB">>

FileNode(id, size) ==
  [kind |-> "file", size |-> size, mtime |-> PayloadMTime, atime |-> PayloadATime,
   id |-> id, data |-> NoMeta]

MetaNode(id, m) == [FileNode(id, HeaderBytes) EXCEPT !.data = m]

PayloadNode(kind, id) ==
  IF kind = "file" THEN FileNode(id, DeclaredSize)
  ELSE IF kind = "short" THEN FileNode(id, DeclaredSize - 1)
  ELSE [FileNode(id, 0) EXCEPT !.kind = kind]

\* The entries of one pair: its $I file and, unless missing, its $R entry.
PairFS(ipath, rpath, id, m, kind) ==
  IF kind = "none" THEN ipath :> MetaNode("i" \o id, m)
  ELSE ipath :> MetaNode("i" \o id, m) @@ rpath :> PayloadNode(kind, "r" \o id)

TargetAt(t) == IF t = "." THEN Cwd ELSE Cwd \o <<t>>

\* k names already taken: c/d/f.txt, c/d/f-1.txt, ... under the target; the
\* last of them is of the kind given, a regular file or a symbolic link
\* whose target does not exist.
TakenFS(t, k, last) ==
  IF k = 0 THEN << >> :> DirNode
  ELSE LET base == TargetAt(t)
           name(j) == IF j = 0 THEN "f.txt" ELSE "f-" \o IntToStr(j) \o ".txt"
           dirs == {base, base \o <<"c">>, base \o <<"c", "d">>}
           files == {base \o <<"c", "d", name(j)>> : j \in 0..(k - 1)}
       IN [x \in dirs \cup files |->
             IF x \in dirs THEN DirNode
             ELSE IF x[Len(x)] = name(k - 1)
                  THEN [FileNode("old" \o x[Len(x)], DeclaredSize) EXCEPT !.kind = last]
                  ELSE FileNode("old" \o x[Len(x)], DeclaredSize)]

InitFS(t, k, last, ma, pa, mb, pb) ==
  PairFS(MetaA, DataA, "A", ma, pa) @@ PairFS(MetaB, DataB, "B", mb, pb)
  @@ TakenFS(t, k, last)
  @@ (<< >> :> DirNode) @@ (Cwd :> DirNode) @@ (BinDir :> DirNode) @@ (SubDir :> DirNode)

NoCur == [pathname |-> "", r_pathname |-> "", stat_obj |-> NoNode, size |-> 0,
          deletion_timestamp |-> 0, deleted_pathname |-> "", restore_pathname |-> "",
          prefix |-> "", ext |-> "", i |-> 0]

NoErr == [type |-> "", at |-> "", fault |-> FALSE]

Init ==
  /\ target \in {".", "out"}
  /\ binroot \in {"bin", "gone"}
  /\ \E k \in 0..MaxTaken, last \in {"file", "symlink"}, a \in ConfigsA, b \in ConfigsB :
       fs = InitFS(target, k, last, a[1], a[2], b[1], b[2])
  /\ fs0 = fs
  /\ run = 1
  /\ pc = "walk"
  /\ todo = <<binroot>>
  /\ cur = NoCur
  /\ stderr = << >>
  /\ err = NoErr
  /\ hist = << >>
  /\ ends = << >>
  /\ window = {}

---------------------------------------------------------------------------
(* process_recursively: the recursion is the list todo of the calls still  *)
(* to make, the callee's before the caller's remaining ones.               *)

Line(lvl, msg, path) == [lvl |-> lvl, msg |-> msg, path |-> path]

Returned(result) ==
  [run |-> run, pathname |-> cur.pathname, r_pathname |-> cur.r_pathname,
   result |-> result, dest |-> cur.restore_pathname, id |-> cur.stat_obj.id]

\* Line 144: the sibling payload pathname of a $I pathname.
SiblingPayload(pathname) ==
  PathJoin(DirName(pathname),
           "$R" \o SubSeq(BaseName(pathname), 3, Len(BaseName(pathname))))

\* Lines 179-182: the path does not exist (any more).
VisitVanished ==
  /\ pc = "walk" /\ todo # << >>
  /\ LStat(fs, Head(todo)).kind = "none"
  /\ todo' = Tail(todo)
  /\ UNCHANGED <<fs, fs0, target, binroot, run, pc, cur, stderr, err, hist, ends, window>>

\* Lines 183-185: a directory, entered in sorted order.
VisitDir ==
  /\ pc = "walk" /\ todo # << >>
  /\ LStat(fs, Head(todo)).kind = "dir"
  /\ LET entries == Sorted(ListDir(fs, Head(todo)))
     IN todo' = [i \in 1..Len(entries) |-> PathJoin(Head(todo), entries[i])] \o Tail(todo)
  /\ UNCHANGED <<fs, fs0, target, binroot, run, pc, cur, stderr, err, hist, ends, window>>

\* A variant of VisitMeta that takes every regular file whose name starts
\* with '$' for a metadata file.
VisitMeta_AnyDollar ==
  /\ pc = "walk" /\ todo # << >>
  /\ LStat(fs, Head(todo)).kind = "file"
  /\ StartsWith(BaseName(Head(todo)), "$")
  /\ cur' = [NoCur EXCEPT !.pathname = Head(todo),
                          !.r_pathname = SiblingPayload(Head(todo))]
  /\ pc' = "pair"
  /\ todo' = Tail(todo)
  /\ UNCHANGED <<fs, fs0, target, binroot, run, stderr, err, hist, ends, window>>

\* Lines 186-189 and 141-144: a regular file named $I...
VisitMeta ==
  /\ pc = "walk" /\ todo # << >>
  /\ LStat(fs, Head(todo)).kind = "file"
  /\ StartsWith(BaseName(Head(todo)), "$I")
  /\ cur' = [NoCur EXCEPT !.pathname = Head(todo),
                          !.r_pathname = SiblingPayload(Head(todo))]
  /\ pc' = "pair"
  /\ todo' = Tail(todo)
  /\ UNCHANGED <<fs, fs0, target, binroot, run, stderr, err, hist, ends, window>>

\* Lines 186-188: anything else is passed over.
VisitOther ==
  /\ pc = "walk" /\ todo # << >>
  /\ LStat(fs, Head(todo)).kind \notin {"none", "dir"}
  /\ ~(LStat(fs, Head(todo)).kind = "file" /\ StartsWith(BaseName(Head(todo)), "$I"))
  /\ todo' = Tail(todo)
  /\ UNCHANGED <<fs, fs0, target, binroot, run, pc, cur, stderr, err, hist, ends, window>>

\* Line 222 returns: main() ends with exit status 0.
Finish ==
  /\ pc = "walk" /\ todo = << >>
  /\ pc' = "done"
  /\ UNCHANGED <<fs, fs0, target, binroot, run, todo, cur, stderr, err, hist, ends, window>>

---------------------------------------------------------------------------
(* process_recycle_bin_pathname, one action per outcome of each step.      *)

\* A variant of SizeMismatch that rejects only a payload larger than declared.
SizeMismatch_OnlyLarger(stat_obj, size) == stat_obj.kind = "file" /\ size < stat_obj.size

\* Line 152
SizeMismatch(stat_obj, size) == stat_obj.kind = "file" /\ size # stat_obj.size

\* An exception nothing catches: a traceback, and the process ends.  fault
\* tells a failure of the operating system (permissions, a full disk) from
\* one that follows from the state of the filesystem.
Raise(type, at, fault) ==
  /\ err' = [type |-> type, at |-> at, fault |-> fault]
  /\ pc' = "aborted"
  /\ hist' = Append(hist, Returned(type))

\* A variant of PairMissing that decodes the metadata before looking for
\* the payload.
PairMissing_DecodesFirst ==
  /\ pc = "pair"
  /\ LStat(fs, cur.r_pathname).kind = "none"
  /\ IF parse_recycle_bin_i_file(LStat(fs, cur.pathname).data).ok
     THEN /\ pc' = "walk"
          /\ hist' = Append(hist, Returned("nopair"))
          /\ cur' = NoCur
          /\ err' = err
     ELSE /\ Raise("ValueError", "parse", FALSE)
          /\ cur' = cur
  /\ UNCHANGED <<fs, fs0, target, binroot, run, todo, stderr, ends, window>>

\* Lines 145-148: no payload, return silently.
PairMissing ==
  /\ pc = "pair"
  /\ LStat(fs, cur.r_pathname).kind = "none"
  /\ pc' = "walk"
  /\ hist' = Append(hist, Returned("nopair"))
  /\ cur' = NoCur
  /\ UNCHANGED <<fs, fs0, target, binroot, run, todo, stderr, err, ends, window>>

\* Lines 149-151: the record does not decode; the ValueError is not caught.
PairDecodeError ==
  /\ pc = "pair"
  /\ LStat(fs, cur.r_pathname).kind # "none"
  /\ ~parse_recycle_bin_i_file(LStat(fs, cur.pathname).data).ok
  /\ stderr' = Append(stderr, Line("info", "moving from Recycle Bin", cur.r_pathname))
  /\ Raise("ValueError", "parse", FALSE)
  /\ UNCHANGED <<fs, fs0, target, binroot, run, todo, cur, ends, window>>

\* Lines 152-154: the size check fails; a warning, and nothing is moved.
PairMismatch ==
  /\ pc = "pair"
  /\ LStat(fs, cur.r_pathname).kind # "none"
  /\ LET rec == parse_recycle_bin_i_file(LStat(fs, cur.pathname).data) IN
       /\ rec.ok
       /\ SizeMismatch(LStat(fs, cur.r_pathname), rec.size)
  /\ stderr' = stderr \o <<Line("info", "moving from Recycle Bin", cur.r_pathname),
                           Line("warning", "file size mismatch, not moving", cur.r_pathname)>>
  /\ pc' = "walk"
  /\ hist' = Append(hist, [Returned("mismatch") EXCEPT !.id = LStat(fs, cur.r_pathname).id])
  /\ cur' = NoCur
  /\ UNCHANGED <<fs, fs0, target, binroot, run, todo, err, ends, window>>

\* Lines 146-155: the pair is accepted.
PairAccepted ==
  /\ pc = "pair"
  /\ LStat(fs, cur.r_pathname).kind # "none"
  /\ LET rec == parse_recycle_bin_i_file(LStat(fs, cur.pathname).data) IN
       /\ rec.ok
       /\ ~SizeMismatch(LStat(fs, cur.r_pathname), rec.size)
       /\ cur' = [cur EXCEPT !.stat_obj = LStat(fs, cur.r_pathname),
                             !.size = rec.size,
                             !.deletion_timestamp = filetime_to_timestamp_float(rec.filetime),
                             !.deleted_pathname = rec.path]
  /\ stderr' = Append(stderr, Line("info", "moving from Recycle Bin", cur.r_pathname))
  /\ pc' = "utime"
  /\ UNCHANGED <<fs, fs0, target, binroot, run, todo, err, hist, ends, window>>

\* Line 156
PredatesMTime(deletion_timestamp, stat_obj) == deletion_timestamp < stat_obj.mtime

\* Lines 156-157: the deletion time becomes the payload's mtime.
UtimeSet ==
  /\ pc = "utime"
  /\ PredatesMTime(cur.deletion_timestamp, cur.stat_obj)
  /\ UTime(fs, cur.r_pathname, cur.stat_obj.atime, cur.deletion_timestamp).ok
  /\ fs' = UTime(fs, cur.r_pathname, cur.stat_obj.atime, cur.deletion_timestamp).fs
  /\ pc' = "dest"
  /\ UNCHANGED <<fs0, target, binroot, run, todo, cur, stderr, err, hist, ends, window>>

\* Line 156: the payload is not newer than its deletion.
UtimeSkip ==
  /\ pc = "utime"
  /\ ~PredatesMTime(cur.deletion_timestamp, cur.stat_obj)
  /\ pc' = "dest"
  /\ UNCHANGED <<fs, fs0, target, binroot, run, todo, cur, stderr, err, hist, ends, window>>

\* Line 157: os.utime raises OSError (the payload is a dangling symlink).
UtimeError ==
  /\ pc = "utime"
  /\ PredatesMTime(cur.deletion_timestamp, cur.stat_obj)
  /\ ~UTime(fs, cur.r_pathname, cur.stat_obj.atime, cur.deletion_timestamp).ok
  /\ Raise("OSError", "utime", FALSE)
  /\ UNCHANGED <<fs, fs0, target, binroot, run, todo, cur, stderr, ends, window>>

\* Lines 158-161
RestorePathname(restore_target_dir, deleted_pathname) ==
  IF restore_target_dir = "." THEN deleted_pathname
  ELSE PathJoin(restore_target_dir, deleted_pathname)

\* A variant of NumberedName that puts the number after the extension.
NumberedName_AfterExt(prefix, i, ext) == prefix \o ext \o "-" \o IntToStr(i)

\* Line 166: '%s-%d%s' % (prefix, i, ext)
NumberedName(prefix, i, ext) == prefix \o "-" \o IntToStr(i) \o ext

\* Lines 158-162: nothing is at the destination.
DestFree ==
  /\ pc = "dest"
  /\ ~PathExists(fs, RestorePathname(target, cur.deleted_pathname))
  /\ cur' = [cur EXCEPT !.restore_pathname = RestorePathname(target, cur.deleted_pathname)]
  /\ pc' = "mkdir"
  /\ UNCHANGED <<fs, fs0, target, binroot, run, todo, stderr, err, hist, ends, window>>

\* Lines 158-164: the destination exists; the search for a free name starts.
DestTaken ==
  /\ pc = "dest"
  /\ PathExists(fs, RestorePathname(target, cur.deleted_pathname))
  /\ LET pe == SplitExt(RestorePathname(target, cur.deleted_pathname)) IN
       cur' = [cur EXCEPT !.restore_pathname = RestorePathname(target, cur.deleted_pathname),
                          !.prefix = pe.prefix, !.ext = pe.ext, !.i = 1]
  /\ pc' = "probe"
  /\ UNCHANGED <<fs, fs0, target, binroot, run, todo, stderr, err, hist, ends, window>>

\* Lines 166-168: the numbered name is free.
ProbeFree ==
  /\ pc = "probe"
  /\ ~PathExists(fs, NumberedName(cur.prefix, cur.i, cur.ext))
  /\ cur' = [cur EXCEPT !.restore_pathname = NumberedName(cur.prefix, cur.i, cur.ext)]
  /\ pc' = "mkdir"
  /\ UNCHANGED <<fs, fs0, target, binroot, run, todo, stderr, err, hist, ends, window>>

\* A variant of ProbeTaken that does not increment the number.
ProbeTaken_SameNumber ==
  /\ pc = "probe"
  /\ PathExists(fs, NumberedName(cur.prefix, cur.i, cur.ext))
  /\ cur' = [cur EXCEPT !.restore_pathname = NumberedName(cur.prefix, cur.i, cur.ext)]
  /\ UNCHANGED <<fs, fs0, target, binroot, run, pc, todo, stderr, err, hist, ends, window>>

\* Lines 166-169: the numbered name is taken; try the next number.
ProbeTaken ==
  /\ pc = "probe"
  /\ PathExists(fs, NumberedName(cur.prefix, cur.i, cur.ext))
  /\ cur' = [cur EXCEPT !.restore_pathname = NumberedName(cur.prefix, cur.i, cur.ext),
                        !.i = cur.i + 1]
  /\ UNCHANGED <<fs, fs0, target, binroot, run, pc, todo, stderr, err, hist, ends, window>>

\* Lines 170-172: the destination's directory is there.
MkdirSkip ==
  /\ pc = "mkdir"
  /\ PathIsDir(fs, DirName(cur.restore_pathname))
  /\ stderr' = Append(stderr, Line("info", "moving to", cur.restore_pathname))
  /\ pc' = "rename"
  /\ UNCHANGED <<fs, fs0, target, binroot, run, todo, cur, err, hist, ends, window>>

\* Lines 170-173: os.makedirs creates the destination's directory.
MkdirDone ==
  /\ pc = "mkdir"
  /\ ~PathIsDir(fs, DirName(cur.restore_pathname))
  /\ MakeDirs(fs, DirName(cur.restore_pathname)).ok
  /\ fs' = MakeDirs(fs, DirName(cur.restore_pathname)).fs
  /\ stderr' = Append(stderr, Line("info", "moving to", cur.restore_pathname))
  /\ pc' = "rename"
  /\ UNCHANGED <<fs0, target, binroot, run, todo, cur, err, hist, ends, window>>

\* Line 173: os.makedirs raises OSError, which is not caught.
MkdirFails ==
  /\ pc = "mkdir"
  /\ ~PathIsDir(fs, DirName(cur.restore_pathname))
  /\ LET md == MakeDirs(fs, DirName(cur.restore_pathname)) IN
       /\ fs' = IF md.ok THEN fs ELSE md.fs
       /\ Raise("OSError", "makedirs", md.ok)
  /\ stderr' = Append(stderr, Line("info", "moving to", cur.restore_pathname))
  /\ UNCHANGED <<fs0, target, binroot, run, todo, cur, ends, window>>

\* Line 174: the payload is moved.
RenameDone ==
  /\ pc = "rename"
  /\ Rename(fs, cur.r_pathname, cur.restore_pathname).ok
  /\ fs' = Rename(fs, cur.r_pathname, cur.restore_pathname).fs
  /\ pc' = "remove"
  /\ UNCHANGED <<fs0, target, binroot, run, todo, cur, stderr, err, hist, ends, window>>

\* A variant of RenameFails that ignores the failure and goes on to delete
\* the metadata file.
RenameFails_Ignored ==
  /\ pc = "rename"
  /\ pc' = "remove"
  /\ UNCHANGED <<fs, fs0, target, binroot, run, todo, cur, stderr, err, hist, ends, window>>

\* A variant of RenameFails that reports the failure and returns to the
\* traversal.
RenameFails_Reported ==
  /\ pc = "rename"
  /\ stderr' = Append(stderr, Line("warning", "cannot move", cur.r_pathname))
  /\ hist' = Append(hist, Returned("failed"))
  /\ pc' = "walk"
  /\ cur' = NoCur
  /\ UNCHANGED <<fs, fs0, target, binroot, run, todo, err, ends, window>>

\* Line 174: os.rename raises OSError, which is not caught.
RenameFails ==
  /\ pc = "rename"
  /\ Raise("OSError", "rename", Rename(fs, cur.r_pathname, cur.restore_pathname).ok)
  /\ UNCHANGED <<fs, fs0, target, binroot, run, todo, cur, stderr, ends, window>>

\* Line 175: the metadata file is deleted, and the call returns.
RemoveDone ==
  /\ pc = "remove"
  /\ Remove(fs, cur.pathname).ok
  /\ fs' = Remove(fs, cur.pathname).fs
  /\ hist' = Append(hist, Returned("restored"))
  /\ pc' = "walk"
  /\ cur' = NoCur
  /\ UNCHANGED <<fs0, target, binroot, run, todo, stderr, err, ends, window>>

\* Line 175: os.remove raises OSError, which is not caught.
RemoveFails ==
  /\ pc = "remove"
  /\ Raise("OSError", "remove", Remove(fs, cur.pathname).ok)
  /\ UNCHANGED <<fs, fs0, target, binroot, run, todo, cur, stderr, ends, window>>

---------------------------------------------------------------------------
(* The process and its invocations. *)

Running == pc \in {"walk", "pair", "utime", "dest", "probe", "mkdir", "rename", "remove"}

\* The process is stopped (killed, power loss) wherever it is.
Crash ==
  /\ Running
  /\ pc' = "crashed"
  /\ window' = IF pc = "remove"
               THEN window \cup {[pathname |-> cur.pathname, r_pathname |-> cur.r_pathname,
                                  dest |-> cur.restore_pathname,
                                  node |-> LStat(fs, cur.restore_pathname), run |-> run]}
               ELSE window
  /\ UNCHANGED <<fs, fs0, target, binroot, run, todo, cur, stderr, err, hist, ends>>

\* The script is started again on the same arguments.
Rerun ==
  /\ pc \in {"done", "aborted", "crashed"}
  /\ run < MaxRuns
  /\ run' = run + 1
  /\ ends' = Append(ends, pc)
  /\ pc' = "walk"
  /\ todo' = <<binroot>>
  /\ cur' = NoCur
  /\ stderr' = << >>
  /\ err' = NoErr
  /\ UNCHANGED <<fs, fs0, target, binroot, hist, window>>

\* The exit status of the process: sys.exit(None) after main() returns, 1
\* after an uncaught exception.
ExitStatus == IF pc = "done" THEN 0 ELSE IF pc = "aborted" THEN 1 ELSE -1

Next ==
  \/ VisitVanished \/ VisitDir \/ VisitMeta \/ VisitOther \/ Finish
  \/ PairMissing \/ PairDecodeError \/ PairMismatch \/ PairAccepted
  \/ UtimeSet \/ UtimeSkip \/ UtimeError
  \/ DestFree \/ DestTaken \/ ProbeFree \/ ProbeTaken
  \/ MkdirSkip \/ MkdirDone \/ MkdirFails
  \/ RenameDone \/ RenameFails
  \/ RemoveDone \/ RemoveFails
  \/ Crash \/ Rerun

Spec == Init /\ [][Next]_vars

---------------------------------------------------------------------------
(* parse_recycle_bin_i_file called on one file: the specification of the   *)
(* decoder alone.  The file is $I in the working directory; hist receives  *)
(* the tuple the call returns, err and stderr the exception it raises.     *)

\* Version fields run from 0 to MaxVersion.
MaxVersion == 3

\* The pathnames the records are written from.
Pathnames ==
  {"C:\\Users\\x\\f.txt", "C:\\temp", "C:\\", "C:", "", "c:\\a\\\\b\\",
   "\\\\server\\share", "1:\\a", "C:/a", "CC:\\a", ":\\a", "C:\\/e", "Z:\\a/b\\c",
   "C:\\a/\\b"}

\* A record with a whole header: the version, the length field as present,
\* and the code units that follow it in the file.
Record(version, lenlen, n, units, odd) ==
  [hdrlen |-> HeaderBytes, version |-> version, size |-> DeclaredSize,
   filetime |-> Earlier, lenlen |-> lenlen, n |-> n, units |-> units, odd |-> odd]

\* The records written from one pathname: whole ones of every version,
\* ones whose length field is the largest allowed or one more, and ones cut
\* short in the header, in the length field or in the pathname field.
RecordsOf(name) ==
  LET u == Units(name)
      k == Len(name)
  IN {Record(v, LengthBytes, k + 1, u \o Nuls(1), 0) : v \in 0..MaxVersion}
     \cup {MetaV1(name, DeclaredSize, Earlier),
           Record(2, LengthBytes, k, u, 0),
           Record(2, LengthBytes, MaxPathUnits, u \o Nuls(MaxPathUnits - k), 0),
           Record(2, LengthBytes, MaxPathUnits + 1, u \o Nuls(MaxPathUnits + 1 - k), 0),
           Record(2, LengthBytes, MaxPathUnits, u \o Nuls(1), 0),
           Record(2, LengthBytes, k + 2, u \o Nuls(1), 0),
           Record(2, LengthBytes, k + 2, u \o Nuls(1), 1),
           Record(2, LengthBytes, k + 2, u \o <<"SURR">> \o Nuls(1), 0),
           Record(2, LengthBytes - 1, 0, << >>, 0),
           Record(1, 0, 0, u \o Nuls(1), 0),
           Record(1, 0, 0, u \o Nuls(1), 1),
           Record(1, 0, 0, u, 0),
           [Record(2, 0, 0, << >>, 0) EXCEPT !.hdrlen = HeaderBytes - 1],
           [Record(2, 0, 0, << >>, 0) EXCEPT !.hdrlen = 0]}

ParseInputs == UNION {RecordsOf(name) : name \in Pathnames}

ParseInit ==
  /\ \E m \in ParseInputs :
       fs = (<< >> :> DirNode) @@ (Cwd :> DirNode) @@ (Cwd \o <<"$I">> :> MetaNode("i", m))
  /\ fs0 = fs
  /\ target = "."
  /\ binroot = "$I"
  /\ run = 1
  /\ pc = "parse"
  /\ todo = << >>
  /\ cur = [NoCur EXCEPT !.pathname = "$I"]
  /\ stderr = << >>
  /\ err = NoErr
  /\ hist = << >>
  /\ ends = << >>
  /\ window = {}

\* Line 129: the call returns (size, deletion_filetime, deleted_pathname).
ParseReturns ==
  /\ pc = "parse"
  /\ LET rec == parse_recycle_bin_i_file(LStat(fs, cur.pathname).data) IN
       /\ rec.ok
       /\ hist' = <<[size |-> rec.size, deletion_filetime |-> rec.filetime,
                     deleted_pathname |-> rec.path]>>
  /\ pc' = "parsed"
  /\ UNCHANGED <<fs, fs0, target, binroot, run, todo, cur, stderr, err, ends, window>>

\* Lines 96-126: the call raises ValueError with its message.
ParseRaises ==
  /\ pc = "parse"
  /\ LET rec == parse_recycle_bin_i_file(LStat(fs, cur.pathname).data) IN
       /\ ~rec.ok
       /\ stderr' = <<Line("ValueError", rec.err, cur.pathname)>>
  /\ err' = [type |-> "ValueError", at |-> "parse", fault |-> FALSE]
  /\ pc' = "aborted"
  /\ UNCHANGED <<fs, fs0, target, binroot, run, todo, cur, hist, ends, window>>

ParseNext == ParseReturns \/ ParseRaises

ParseSpec == ParseInit /\ [][ParseNext]_vars

---------------------------------------------------------------------------
(* What the claims speak of. *)

\* The two pairs of the bin, by the pathnames the traversal gives them.
Entries == {[i |-> "bin/$IA.dat", r |-> "bin/$RA.dat"],
            [i |-> "bin/S/$IB", r |-> "bin/S/$RB"]}

Range(q) == {q[j] : j \in 1..Len(q)}

\* The record of an entry's $I file when the first run started.
RecordOf(e) == parse_recycle_bin_i_file(LStat(fs0, e.i).data)

\* T/P, and P itself under the current-directory sentinel.
Rebased(t, P) == IF t = "." THEN P ELSE t \o "/" \o P

\* A pair the first run finds whole: the record decodes to a relative path,
\* the payload is a regular file of the declared size, nothing is at the
\* destination, and no other record names the same destination.
Restorable(e) ==
  /\ LStat(fs0, e.i).kind = "file"
  /\ RecordOf(e).ok
  /\ ~StartsWith(RecordOf(e).path, "/")
  /\ LStat(fs0, e.r).kind = "file"
  /\ LStat(fs0, e.r).size = RecordOf(e).size
  /\ LStat(fs0, Rebased(target, RecordOf(e).path)).kind = "none"
  /\ \A o \in Entries \ {e} : RecordOf(o).ok => RecordOf(o).path # RecordOf(e).path

\* C1: every pair whose record decodes, whose payload has the declared size
\* and whose destination is free is restored by the run: once the run has
\* ended (without the operating system failing a call, and not killed), the
\* payload is at T/P and neither file of the pair is left in the bin.
C1_EveryWholePairRestored ==
  (run = 1 /\ pc \in {"done", "aborted"} /\ ~err.fault /\ binroot = "bin") =>
    \A e \in Entries :
      Restorable(e) =>
        /\ LStat(fs, Rebased(target, RecordOf(e).path)).id = LStat(fs0, e.r).id
        /\ LStat(fs, e.i).kind = "none"
        /\ LStat(fs, e.r).kind = "none"

\* C2: a metadata file that is gone has its payload at the destination the
\* run chose for it, and after a failed makedirs or rename both files of the
\* pair are still in the bin.
C2_MetaDeletedOnlyAfterMove ==
  /\ \A e \in Entries :
       (LStat(fs, e.i).kind = "none" /\ LStat(fs0, e.i).kind = "file") =>
         \E h \in Range(hist) :
           /\ h.pathname = e.i /\ h.result = "restored"
           /\ LStat(fs, h.dest).kind # "none"
           /\ LStat(fs, h.dest).id = LStat(fs0, e.r).id
           /\ LStat(fs, e.r).kind = "none"
  /\ (pc = "aborted" /\ err.at \in {"makedirs", "rename"}) =>
       /\ LStat(fs, cur.pathname).kind = "file"
       /\ LStat(fs, cur.r_pathname).kind # "none"
       /\ LStat(fs, cur.r_pathname).id = LStat(fs0, cur.r_pathname).id

\* Witness of C2: one pair was restored and its metadata deleted, and the
\* rename of the other pair failed.
C2_Witness ==
  /\ pc = "aborted" /\ err.at = "rename"
  /\ \E h \in Range(hist) : h.result = "restored" /\ LStat(fs, h.pathname).kind = "none"

\* C3: the path a payload has been moved to is relative and lies under the
\* restore target directory.
C3_DestinationUnderTarget ==
  pc = "remove" =>
    /\ ~StartsWith(cur.restore_pathname, "/")
    /\ IsPrefix(TargetAt(target), Resolve(fs, cur.restore_pathname).at)

\* C4: when the payload is a regular file whose size is not the declared
\* one, processing the entry changes nothing in the filesystem and ends with
\* the warning; both files of an entry so skipped are where and as they were.
C4_SizeMismatchSkipped ==
  /\ [][(/\ pc = "pair"
         /\ LStat(fs, cur.r_pathname).kind = "file"
         /\ parse_recycle_bin_i_file(LStat(fs, cur.pathname).data).ok
         /\ parse_recycle_bin_i_file(LStat(fs, cur.pathname).data).size
              # LStat(fs, cur.r_pathname).size)
        => /\ fs' = fs
           /\ pc' \in {"walk", "crashed"}
           /\ pc' = "walk" =>
                /\ Len(stderr') > 0
                /\ stderr'[Len(stderr')] =
                     [lvl |-> "warning", msg |-> "file size mismatch, not moving",
                      path |-> cur.r_pathname]]_vars
  /\ [](\A h \in Range(hist) :
          h.result = "mismatch" =>
            /\ LStat(fs, h.pathname) = LStat(fs0, h.pathname)
            /\ LStat(fs, h.r_pathname) = LStat(fs0, h.r_pathname)
            /\ LStat(fs, h.r_pathname).kind = "file")

\* Witness of C4: a run has ended after skipping an entry for its size.
C4_Witness ==
  /\ pc = "done"
  /\ \E h \in Range(hist) :
       /\ h.result = "mismatch"
       /\ LStat(fs, h.r_pathname).size
            # parse_recycle_bin_i_file(LStat(fs, h.pathname).data).size

\* C5: processing a metadata file whose payload does not exist changes
\* nothing, writes nothing and raises nothing, whatever the metadata holds.
C5_MissingPayloadSkipped ==
  [][(pc = "pair" /\ LStat(fs, cur.r_pathname).kind = "none")
     => /\ fs' = fs
        /\ stderr' = stderr
        /\ err' = err
        /\ pc' \in {"walk", "crashed"}]_vars

\* Witness of C5: a run has ended normally after passing over a metadata
\* file that has no payload and does not decode.
C5_Witness ==
  /\ pc = "done"
  /\ \E h \in Range(hist) :
       /\ h.result = "nopair" /\ h.run = run
       /\ LStat(fs, h.pathname).kind = "file"
       /\ ~parse_recycle_bin_i_file(LStat(fs, h.pathname).data).ok

\* The destination the collision rule gives: name.ext when nothing is
\* there, else name-k.ext for the lowest k >= 1 that is free.
LowestFree(f, base) ==
  IF ~PathExists(f, base) THEN base
  ELSE LET name == SplitExt(base).prefix
           ext  == SplitExt(base).ext
           nth(k) == name \o "-" \o IntToStr(k) \o ext
           k == CHOOSE j \in 1..Cardinality(DOMAIN f) :
                  /\ ~PathExists(f, nth(j))
                  /\ \A l \in 1..(j - 1) : PathExists(f, nth(l))
       IN nth(k)

C7_OtherPairsStillProcessed ==
  (run = 1 /\ pc = "aborted") =>
    \A e \in Entries :
      (e.i # cur.pathname /\ Restorable(e)) =>
        \E h \in Range(hist) : h.pathname = e.i

\* C8: after a run that completed, no step of the next run changes the
\* filesystem.
C8_RerunChangesNothing ==
  [][(run > 1 /\ ends[Len(ends)] = "done") => fs' = fs]_vars

\* Witness of C8: the run after a completed run that restored one pair and
\* passed over an orphan metadata file has completed too.
C8_Witness ==
  /\ run = 2 /\ pc = "done" /\ ends = <<"done">>
  /\ \E h \in Range(hist) : h.run = 1 /\ h.result = "restored"
  /\ \E h \in Range(hist) : h.run = 1 /\ h.result = "nopair"
  /\ \E h \in Range(hist) : h.run = 2 /\ h.result = "nopair"

\* C9: after a stop between rename and remove, in every later run the
\* payload is at its destination as it was, nowhere else, the leftover
\* metadata file is only ever passed over for its missing payload, and
\* nothing is written about it.
C9_LeftoverMetaSkippedForever ==
  \A c \in window :
    run > c.run =>
      /\ LStat(fs, c.dest) = c.node
      /\ Cardinality({k \in DOMAIN fs : fs[k].id = c.node.id}) = 1
      /\ LStat(fs, c.r_pathname).kind = "none"
      /\ LStat(fs, c.pathname).kind = "file"
      /\ cur.pathname = c.pathname => pc \in {"pair", "crashed"}
      /\ \A h \in Range(hist) :
           (h.pathname = c.pathname /\ h.run > c.run) => h.result = "nopair"
      /\ \A j \in 1..Len(stderr) : stderr[j].path # c.r_pathname

\* Witness of C9: the run after such a stop has passed over the leftover
\* metadata file and completed.
C9_Witness ==
  /\ run = 2 /\ pc = "done"
  /\ \E c \in window :
       /\ c.run = 1
       /\ \E h \in Range(hist) : h.run = 2 /\ h.pathname = c.pathname /\ h.result = "nopair"

\* C10: a run on a bin root that does not exist does not end as a normal
\* run: it ends with a non-zero exit status or a fatal message.
C10_MissingRootIsFatal ==
  (LStat(fs, binroot).kind = "none" /\ pc = "done") =>
    \/ ExitStatus # 0
    \/ \E j \in 1..Len(stderr) : stderr[j].lvl = "fatal"

\* Depth-first traversal in sorted order visits p before q: at the first
\* component where the two pathnames differ, p's is the smaller name.
RECURSIVE ComesBefore(_, _)
ComesBefore(p, q) ==
  LET a == Split(p, "/")
      b == Split(q, "/")
  IN IF Len(a) = 0 \/ Len(b) = 0 \/ p = "" \/ q = "" THEN FALSE
     ELSE IF a[1] # b[1] THEN StrLess(a[1], b[1])
     ELSE IF Len(a) = 1 \/ Len(b) = 1 THEN FALSE
     ELSE ComesBefore(SubSeq(p, Len(a[1]) + 2, Len(p)), SubSeq(q, Len(b[1]) + 2, Len(q)))

\* name.ext for j = 0 and name-j.ext for j >= 1.
NthName(base, j) ==
  IF j = 0 THEN base
  ELSE SplitExt(base).prefix \o "-" \o IntToStr(j) \o SplitExt(base).ext

\* The numbers j whose name NthName(base, j) nothing is at in f, among as
\* many numbers as there can be names taken and pairs to restore.
FreeNumbers(f, base) ==
  {j \in 0..(MaxTaken + Cardinality(Entries)) : ~PathExists(f, NthName(base, j))}

Least(S) == CHOOSE j \in S : \A l \in S : j <= l

\* The (r+1)-th smallest number of S.
RECURSIVE NthLeast(_, _)
NthLeast(S, r) == IF r = 0 THEN Least(S) ELSE NthLeast(S \ {Least(S)}, r - 1)

\* The pairs of the first run restored before the metadata file pathname
\* whose records decode to the same path as its record.
SamePathBefore(pathname) ==
  LET path == parse_recycle_bin_i_file(LStat(fs0, pathname).data).path
  IN {i \in 1..Len(hist) :
        /\ hist[i].run = 1 /\ hist[i].result = "restored"
        /\ ComesBefore(hist[i].pathname, pathname)
        /\ parse_recycle_bin_i_file(LStat(fs0, hist[i].pathname).data).path = path}

\* C11: metadata files are processed in depth-first sorted order, and the
\* destination a payload has just been moved to is a function of the
\* filesystem the run started on: of the names name.ext, name-1.ext, ...
\* free at the start, the first pair in traversal order that decodes to
\* name.ext gets the first, the next pair the second, and so on (pairs that
\* decode to other paths aside).
C11_SortedOrderAssignsNumbers ==
  /\ \A i, j \in 1..Len(hist) :
       (i < j /\ hist[i].run = hist[j].run) =>
         ComesBefore(hist[i].pathname, hist[j].pathname)
  /\ (pc = "remove" /\ run = 1) =>
       LET before == SamePathBefore(cur.pathname)
           base == RestorePathname(target, parse_recycle_bin_i_file(
                     LStat(fs0, cur.pathname).data).path)
       IN (\A i \in 1..Len(hist) : hist[i].result = "restored" => i \in before)
          => cur.restore_pathname = NthName(base, NthLeast(FreeNumbers(fs0, base),
                                                          Cardinality(before)))

\* Witness of C11: two pairs decoding to the same path were restored in one
\* run, the first to name.ext and the second to name-1.ext.
C11_Witness ==
  /\ pc = "done" /\ run = 1
  /\ \E i, j \in 1..Len(hist) :
       /\ i < j
       /\ hist[i].result = "restored" /\ hist[j].result = "restored"
       /\ hist[i].pathname = "bin/$IA.dat" /\ hist[j].pathname = "bin/S/$IB"
       /\ hist[i].dest = Rebased(target, "c/d/f.txt")
       /\ hist[j].dest = Rebased(target, "c/d/f-1.txt")
       /\ LStat(fs, hist[i].dest).id = "rA"
       /\ LStat(fs, hist[j].dest).id = "rB"

\* The record in the file the decoder was called on.
Input == LStat(fs0, "$I").data

\* The call has ended with the format error (ValueError).
FormatError == pc = "aborted" /\ err.type = "ValueError" /\ Len(stderr) = 1

\* C12: the call fails with the format error for every version field other
\* than 1 and 2 and for every version-2 length field above 0x1000 (4096); a
\* length field of exactly 4096 is not what a call fails for, and a whole
\* record of that length decodes.
C12_VersionAndLengthChecked ==
  pc # "parse" =>
    /\ (Input.hdrlen = 24 /\ Input.version \notin {1, 2}) => FormatError
    /\ (Input.hdrlen = 24 /\ Input.version = 2 /\ Input.lenlen = 4 /\ Input.n > 4096)
         => FormatError
    /\ (Input.version = 2 /\ Input.n = 4096) =>
         /\ pc = "aborted" => stderr[1].msg # "deleted_pathname too long."
         /\ (/\ Len(Input.units) = 4096
             /\ Concat(SubSeq(Input.units, 1, 7)) = "C:\\temp"
             /\ Input.units[8] = "NUL")
            => pc = "parsed"

\* Witness of C12: a version-2 record whose length field is 4096, with all
\* its 4096 code units, has been decoded.
C12_Witness ==
  /\ pc = "parsed"
  /\ Input.version = 2 /\ Input.n = 4096 /\ Len(Input.units) = 4096
  /\ hist[1].deleted_pathname = "c/temp"

\* The pathname field of the record cut at its first NUL, as text; the
\* field has a NUL and no lone surrogate.
Terminated(m) ==
  /\ \E i \in 1..Len(m.units) : m.units[i] = "NUL"
  /\ \A i \in 1..Len(m.units) : m.units[i] # "SURR"

Truncated(m) == Concat(SubSeq(m.units, 1, FindNul(m.units) - 1))

AsciiLetters == "ABCDEFGHIJKLMNOPQRSTUVWXYZabcdefghijklmnopqrstuvwxyz"

\* The text begins with a drive letter followed by colon and backslash.
HasDrivePrefix(name) ==
  /\ Len(name) >= 3
  /\ \E i \in 1..Len(AsciiLetters) : Ch(AsciiLetters, i) = Ch(name, 1)
  /\ Ch(name, 2) = ":"
  /\ Ch(name, 3) = "\\"

\* C13: a call whose NUL-truncated pathname has fewer than 3 characters,
\* does not start with an ASCII letter, or does not go on with colon and
\* backslash ends with the format error; a path is returned only for a
\* pathname that begins with a drive letter followed by colon and backslash.
C13_DrivePrefixRequired ==
  /\ pc = "parsed" => (Terminated(Input) /\ HasDrivePrefix(Truncated(Input)))
  /\ (pc # "parse" /\ Terminated(Input) /\ ~HasDrivePrefix(Truncated(Input)))
       => FormatError

\* Witness of C13: the call on a whole record of \\server\share has ended
\* with the format error for its drive letter.
C13_Witness ==
  /\ FormatError
  /\ Input.version = 2 /\ Input.n = Len(Input.units)
  /\ Truncated(Input) = "\\\\server\\share"
  /\ stderr[1].msg = "Bad drive letter in deleted_pathname"

\* The segments put together with the host separator between them.
RECURSIVE JoinWithSeparator(_)
JoinWithSeparator(segs) ==
  IF Len(segs) = 1 THEN segs[1]
  ELSE segs[1] \o "/" \o JoinWithSeparator(Tail(segs))

\* C14: the path returned for L:\s1\...\sn is the lower-cased drive letter
\* and the non-empty segments s_i in their order, joined with the host
\* separator; it is not empty.
C14_PathIsDriveAndSegments ==
  pc = "parsed" =>
    LET name == Truncated(Input)
        segs == FilterNonEmpty(Split(SubSeq(name, 4, Len(name)), "\\"))
    IN /\ hist[1].deleted_pathname = JoinWithSeparator(<<Lower(Ch(name, 1))>> \o segs)
       /\ hist[1].deleted_pathname # ""

\* What of C14 the decoder does: the same holds whenever no segment
\* contains the host separator.
C14_HoldsWithoutSeparatorInSegments ==
  (pc = "parsed" /\ Find(Truncated(Input), "/") = 0) => C14_PathIsDriveAndSegments

Min(a, b) == IF a < b THEN a ELSE b

\* The payload of the entry being processed, where it is now.
PayloadNow ==
  IF pc = "remove" THEN LStat(fs, cur.restore_pathname) ELSE LStat(fs, cur.r_pathname)

\* C15: for an entry that has passed the size check, once line 157 is
\* behind, the payload's mtime is the earlier of its old mtime and the
\* deletion timestamp and its atime is the old one, in the bin and at the
\* destination; and setting the time never ends the run.
C15_TimestampsPreserved ==
  /\ pc \in {"dest", "probe", "mkdir", "rename", "remove"} =>
       /\ PayloadNow.mtime = Min(cur.stat_obj.mtime, cur.deletion_timestamp)
       /\ PayloadNow.atime = cur.stat_obj.atime
  /\ ~(pc = "aborted" /\ err.at = "utime")

\* What of C15 the script does: the same holds for every payload that is
\* not a symbolic link.
C15_HoldsUnlessSymlink ==
  /\ pc \in {"dest", "probe", "mkdir", "rename", "remove"} =>
       /\ PayloadNow.mtime = Min(cur.stat_obj.mtime, cur.deletion_timestamp)
       /\ PayloadNow.atime = cur.stat_obj.atime
  /\ (pc = "aborted" /\ err.at = "utime") => cur.stat_obj.kind = "symlink"

\* C16: inspecting an entry of the traversal changes nothing in the
\* filesystem, writes nothing and raises nothing; restoration is attempted
\* for it exactly when it is a regular file whose name starts with '$I',
\* and an entry that is not there any more is passed over.
C16_OnlyMetaFilesAttempted ==
  [][(pc = "walk" /\ todo # << >>) =>
       /\ fs' = fs /\ stderr' = stderr /\ err' = err /\ hist' = hist
       /\ pc' \in {"walk", "pair", "crashed"}
       /\ pc' = "pair" =>
            /\ LStat(fs, Head(todo)).kind = "file"
            /\ StartsWith(BaseName(Head(todo)), "$I")
            /\ cur'.pathname = Head(todo)
       /\ pc' = "walk" =>
            ~(LStat(fs, Head(todo)).kind = "file"
              /\ StartsWith(BaseName(Head(todo)), "$I"))]_vars

\* Witness of C16: a run has completed that passed over a payload left in
\* place (a regular file named $R...) and a payload that had been moved as
\* the sibling of an earlier metadata file.
C16_Witness ==
  /\ pc = "done" /\ run = 1
  /\ \E h \in Range(hist) : h.result = "mismatch" /\ LStat(fs, "bin/$RA.dat").kind = "file"
  /\ \E h \in Range(hist) :
       /\ h.result = "restored" /\ h.r_pathname = "bin/S/$RB"
       /\ LStat(fs, "bin/S/$RB").kind = "none"

\* Some directory on the way to p is there and is not a directory, so that
\* no chain of parent directories of p can exist.
RECURSIVE ParentBlocked(_, _)
ParentBlocked(f, p) ==
  LET d == DirName(p) IN
  IF d = "" \/ d = p THEN FALSE
  ELSE (PathExists(f, d) /\ ~PathIsDir(f, d)) \/ LStat(f, d).kind = "symlink"
       \/ ParentBlocked(f, d)

\* C17: wherever nothing that is not a directory stands in the way, the
\* directory of the destination exists when the payload is about to be
\* moved, and ensuring it never ends the run short of a failing operating
\* system, for every decoded path and restore target.
C17_ParentChainEnsured ==
  /\ pc = "rename" =>
       \/ DirName(cur.restore_pathname) = ""
       \/ PathIsDir(fs, DirName(cur.restore_pathname))
  /\ (pc = "aborted" /\ err.at = "makedirs" /\ ~err.fault)
       => ParentBlocked(fs, cur.restore_pathname)

\* What of C17 the script does: the same holds whenever the destination has
\* a directory part without '..' in it, that is, unless the path is a single
\* name under the current-directory sentinel or climbs out of the target.
C17_HoldsWithDirectoryPart ==
  /\ pc = "rename" =>
       \/ DirName(cur.restore_pathname) = ""
       \/ PathIsDir(fs, DirName(cur.restore_pathname))
  /\ (/\ pc = "aborted" /\ err.at = "makedirs" /\ ~err.fault
      /\ DirName(cur.restore_pathname) # ""
      /\ ".." \notin Range(Split(cur.restore_pathname, "/")))
       => ParentBlocked(fs, cur.restore_pathname)

\* The bytes of the pathname field that are in the file.
FieldBytes(m) == 2 * Len(m.units) + m.odd

\* The record is cut short: the file ends inside the header, inside the
\* length field, or before the 520 (version 1) or 2*N (version 2) bytes of
\* the pathname field.
CutShort(m) ==
  \/ m.hdrlen < 24
  \/ m.version = 2 /\ m.lenlen < 4
  \/ m.version = 1 /\ FieldBytes(m) < 520
  \/ m.version = 2 /\ m.lenlen = 4 /\ FieldBytes(m) < 2 * m.n

\* C18: the call on a record that is cut short ends with the format error;
\* none returns a path decoded from the bytes that are there.
C18_CutShortRejected ==
  (pc # "parse" /\ CutShort(Input)) => FormatError

\* What of C18 the decoder does: a file that ends inside the header or
\* inside the length field is rejected.
C18_HeaderAndLengthFieldChecked ==
  (pc # "parse" /\ (Input.hdrlen < 24 \/ (Input.hdrlen = 24 /\ Input.version = 2
                                          /\ Input.lenlen < 4)))
    => FormatError

\* Where the node with content id is in f.
PlacesOf(f, id) == {k \in DOMAIN f : f[k].id = id}

\* The entries that were outside the bin when the first run started and
\* are not directories: the files under the restore target among them.
Bystanders == {k \in DOMAIN fs0 : ~IsPrefix(BinDir, k) /\ fs0[k].kind # "dir"}

\* C19: in every state of every run, each payload of the bin is at exactly
\* one place, in the bin or at the destination a run gave it; every file
\* that was outside the bin is where it was, with its content; the path a
\* payload is about to be renamed to has nothing at it; and no two payloads
\* were moved to one destination.
C19_NoDataLoss ==
  /\ \A e \in Entries :
       LStat(fs0, e.r).kind # "none" =>
         /\ Cardinality(PlacesOf(fs, LStat(fs0, e.r).id)) = 1
         /\ \/ LStat(fs, e.r).id = LStat(fs0, e.r).id
            \/ \E h \in Range(hist) :
                 /\ h.r_pathname = e.r
                 /\ LStat(fs, h.dest).id = LStat(fs0, e.r).id
            \/ /\ pc \in {"remove", "crashed", "aborted"} /\ cur.r_pathname = e.r
               /\ LStat(fs, cur.restore_pathname).id = LStat(fs0, e.r).id
            \/ \E c \in window :
                 c.r_pathname = e.r /\ LStat(fs, c.dest).id = LStat(fs0, e.r).id
  /\ \A k \in Bystanders :
       k \in DOMAIN fs /\ fs[k].id = fs0[k].id /\ fs[k].kind = fs0[k].kind
  /\ pc = "rename" => LStat(fs, cur.restore_pathname).kind = "none"
  /\ \A i, j \in 1..Len(hist) :
       (i # j /\ hist[i].result = "restored" /\ hist[j].result = "restored")
         => Resolve(fs, hist[i].dest).at # Resolve(fs, hist[j].dest).at

\* What of C19 the script does: the same holds whenever no symbolic link
\* was outside the bin when the first run started.
C19_HoldsWithoutSymlinkAtDestination ==
  (\A k \in Bystanders : fs0[k].kind # "symlink") => C19_NoDataLoss

\* What a pending call of process_recursively stands for: the entry itself
\* and, for a directory, everything below it.
Weight(f, p) ==
  IF LStat(f, p).kind = "dir"
  THEN Cardinality({k \in DOMAIN f : IsPrefix(Resolve(f, p).at, k)})
  ELSE 1

RECURSIVE Pending(_, _)
Pending(f, t) == IF t = << >> THEN 0 ELSE Weight(f, Head(t)) + Pending(f, Tail(t))

\* The statements of process_recycle_bin_pathname still ahead.
Stage(p) ==
  CASE p = "pair" -> 7 [] p = "utime" -> 6 [] p = "dest" -> 5 [] p = "probe" -> 4
    [] p = "mkdir" -> 3 [] p = "rename" -> 2 [] p = "remove" -> 1 [] OTHER -> 0

\* What is left of a run: the entries still to visit, the statements still
\* ahead for the entry in hand, and the numbers the search can still try.
Rank(f, t, p, c) ==
  <<Pending(f, t), Stage(p), IF p = "probe" THEN Cardinality(DOMAIN f) - c.i ELSE 0>>

LexLess(a, b) ==
  \/ a[1] < b[1]
  \/ a[1] = b[1] /\ a[2] < b[2]
  \/ a[1] = b[1] /\ a[2] = b[2] /\ a[3] < b[3]

\* C20: every step of a run that does not end it leaves strictly less to
\* do, in an order without infinite descent, so every run ends; within a
\* run no metadata file is processed twice, and the number the search for a
\* free name has reached never exceeds the number of entries there are.
C20_EveryRunTerminates ==
  /\ [][(Running /\ Running') =>
          LexLess(Rank(fs', todo', pc', cur'), Rank(fs, todo, pc, cur))]_vars
  /\ [](\A i, j \in 1..Len(hist) :
          (i # j /\ hist[i].run = hist[j].run) => hist[i].pathname # hist[j].pathname)
  /\ []((pc \in {"pair", "utime", "dest", "probe", "mkdir", "rename", "remove"}) =>
          \A i \in 1..Len(hist) : hist[i].run = run => hist[i].pathname # cur.pathname)
  /\ [](pc = "probe" => (cur.i >= 1 /\ cur.i <= Cardinality(DOMAIN fs)))

\* Witness of C20: a run has ended after the search for a free name went
\* through two taken names and both pairs were processed.
C20_Witness ==
  /\ pc = "done" /\ run = 1
  /\ Len(hist) = 2
  /\ \E h \in Range(hist) : h.result = "restored" /\ h.dest = Rebased(target, "c/d/f-2.txt")

====
